---- MODULE Spec2Model ----
(***************************************************************************)
(* Model of bimap.py: class Bimap, a bijective map between distinct        *)
(* immutable items and ordinals, built on two OrderedDicts                  *)
(* (item2ord, ord2item).                                                    *)
(*                                                                          *)
(* Encoding of Python values.                                               *)
(*   - An OrderedDict is the sequence of its <<key, value>> pairs in        *)
(*     insertion order.                                                     *)
(*   - Items are the integers 1..NumItems, ordinals are naturals.           *)
(*   - None is the integer -1: it is neither an item nor an ordinal.        *)
(*   - Python's True / False / NotImplemented, as results of __eq__ and     *)
(*     __ne__, are the strings "True", "False", "NotImplemented".           *)
(*   - An exception is the name of its class in the field exc; "" means     *)
(*     that the call returned normally.                                     *)
(*   - The text made by __repr__ is the record of its two format fields:    *)
(*     the class name and the list of the literals of the items.            *)
(***************************************************************************)
EXTENDS Integers, Sequences, FiniteSets, TLC

\* ---------------------------------------------------------------- bounds
NumItems == 2      \* items are 1..NumItems
MaxCalls == 4      \* successful register calls, all registries together
MaxArgs  == 2      \* longest argument list of the constructor

None == -1

Items   == 1..NumItems
ItemArgs == Items \cup {None}
\* arguments tried for item() / nth(): negative, valid and too large ordinals
OrdArgs == {-2} \cup (0..NumItems)
\* the two variables of the self test that hold a Bimap
Regs == {"bm", "bm2"}
\* an object that is not a Bimap, as right operand of == and !=
NonBimap == "obj"

RECURSIVE SeqsUpTo(_, _)
SeqsUpTo(S, n) ==
  IF n = 0 THEN {<<>>}
  ELSE LET shorter == SeqsUpTo(S, n - 1)
       IN  shorter \cup {Append(s, x) : s \in {t \in shorter : Len(t) = n - 1}, x \in S}

ArgLists == SeqsUpTo(ItemArgs, MaxArgs)

\* ------------------------------------------------------- OrderedDict
\* key in d
Has(d, k) == \E i \in 1..Len(d) : d[i][1] = k

\* d[k], for a key that is present
Get(d, k) == d[CHOOSE i \in 1..Len(d) : d[i][1] = k][2]

\* d[k] = v : an existing key keeps its position, a new key goes last
SetItem(d, k, v) ==
  IF Has(d, k)
  THEN [i \in 1..Len(d) |-> IF d[i][1] = k THEN <<k, v>> ELSE d[i]]
  ELSE Append(d, <<k, v>>)

\* iter(d), d.keys(): the keys in insertion order
Keys(d) == [i \in 1..Len(d) |-> d[i][1]]

\* OrderedDict == OrderedDict is order sensitive: same pairs, same order
OdEq(d1, d2) == d1 = d2

\* the set of (key, value) pairs of a dict
Pairs(d) == {d[i] : i \in 1..Len(d)}

\* range(n), enumerate(...): the sequence 0, 1, ..., n-1
PyRange(n) == [i \in 1..n |-> i - 1]

\* ------------------------------------------------------------- Bimap
\* the object right after the first three lines of __init__
Empty == [classname |-> "Bimap", item2ord |-> <<>>, ord2item |-> <<>>]

len(self) == Len(self.item2ord)

\* __bool__ that is off by one
bool_MoreThanOne(self) == Len(self.item2ord) > 1

__bool__(self) == self.item2ord # <<>>

__iter__(self) == Keys(self.item2ord)

__getitem__(self, item) ==
  IF Has(self.item2ord, item) THEN Get(self.item2ord, item) ELSE None

\* register with the ord2item key taken from len() after the insertion
\* into item2ord
register_LenAfterInsert(self, item) ==
  IF item = None
  THEN [exc |-> "ValueError", ret |-> None, self |-> self]
  ELSE IF Has(self.item2ord, item)
       THEN [exc |-> "", ret |-> Get(self.item2ord, item), self |-> self]
       ELSE LET ord   == len(self)
                i2o   == SetItem(self.item2ord, item, ord)
            IN  [exc  |-> "",
                 ret  |-> ord,
                 self |-> [self EXCEPT
                             !.item2ord = i2o,
                             !.ord2item = SetItem(self.ord2item, Len(i2o), item)]]

\* register without the lookup of an existing item
register_NoLookup(self, item) ==
  IF item = None
  THEN [exc |-> "ValueError", ret |-> None, self |-> self]
  ELSE LET ord == len(self)
       IN  [exc  |-> "",
            ret  |-> ord,
            self |-> [self EXCEPT
                        !.item2ord = SetItem(self.item2ord, item, ord),
                        !.ord2item = SetItem(self.ord2item, ord, item)]]

\* register that counts ordinals from 1
register_OneBased(self, item) ==
  IF item = None
  THEN [exc |-> "ValueError", ret |-> None, self |-> self]
  ELSE IF Has(self.item2ord, item)
       THEN [exc |-> "", ret |-> Get(self.item2ord, item), self |-> self]
       ELSE LET ord == len(self) + 1
            IN  [exc  |-> "",
                 ret  |-> ord,
                 self |-> [self EXCEPT
                             !.item2ord = SetItem(self.item2ord, item, ord),
                             !.ord2item = SetItem(self.ord2item, ord, item)]]

\* register without the test for None
register_NoNoneCheck(self, item) ==
  IF Has(self.item2ord, item)
  THEN [exc |-> "", ret |-> Get(self.item2ord, item), self |-> self]
  ELSE LET ord == len(self)
       IN  [exc  |-> "",
            ret  |-> ord,
            self |-> [self EXCEPT
                        !.item2ord = SetItem(self.item2ord, item, ord),
                        !.ord2item = SetItem(self.ord2item, ord, item)]]

\* register that tests for None only after the item was looked up and stored
register_LateNoneCheck(self, item) ==
  LET res == register_NoNoneCheck(self, item)
  IN  IF item = None
      THEN [exc |-> "ValueError", ret |-> None, self |-> res.self]
      ELSE res

\* register that moves an item that is registered again to the end of
\* item2ord
register_MoveToEnd(self, item) ==
  IF item = None
  THEN [exc |-> "ValueError", ret |-> None, self |-> self]
  ELSE IF Has(self.item2ord, item)
       THEN [exc  |-> "",
             ret  |-> Get(self.item2ord, item),
             self |-> [self EXCEPT !.item2ord =
                         Append(SelectSeq(self.item2ord, LAMBDA p : p[1] # item),
                                <<item, Get(self.item2ord, item)>>)]]
       ELSE LET ord == len(self)
            IN  [exc  |-> "",
                 ret  |-> ord,
                 self |-> [self EXCEPT
                             !.item2ord = SetItem(self.item2ord, item, ord),
                             !.ord2item = SetItem(self.ord2item, ord, item)]]

register(self, item) ==
  IF item = None
  THEN [exc |-> "ValueError", ret |-> None, self |-> self]
  ELSE IF Has(self.item2ord, item)
       THEN [exc |-> "", ret |-> Get(self.item2ord, item), self |-> self]
       ELSE LET ord == len(self)
            IN  [exc  |-> "",
                 ret  |-> ord,
                 self |-> [self EXCEPT
                             !.item2ord = SetItem(self.item2ord, item, ord),
                             !.ord2item = SetItem(self.ord2item, ord, item)]]

ordinal(self, item) == __getitem__(self, item)

\* item over a list: a negative ordinal counts from the end
item_ListIndex(self, ord) ==
  LET n == IF ord < 0 THEN ord + Len(self.ord2item) ELSE ord
  IN  IF Has(self.ord2item, n) THEN Get(self.ord2item, n) ELSE None

item(self, ord) ==
  IF Has(self.ord2item, ord) THEN Get(self.ord2item, ord) ELSE None

nth(self, ord) == item(self, ord)

ordinals(self) == Keys(self.ord2item)

domain(self) == PyRange(len(self))

\* set(self)
range(self) == {__iter__(self)[i] : i \in 1..Len(__iter__(self))}

\* enumerate that counts from 1
enumerate_FromOne(self) == [i \in 1..Len(__iter__(self)) |-> <<i, __iter__(self)[i]>>]

\* enumerate(self.item2ord): the pairs (0, first key), (1, second key), ...
enumerate(self) == [i \in 1..Len(__iter__(self)) |-> <<i - 1, __iter__(self)[i]>>]

\* repr(x) of an item: its literal
ReprItem(x) == IF x = None THEN "None" ELSE ToString(x)

\* eval of a literal: the value that the literal denotes
EvalItem(lit) == CHOOSE x \in ItemArgs : ReprItem(x) = lit

\* the items of a set in ascending order
SortedSeq(S) == [i \in 1..Cardinality(S) |-> CHOOSE x \in S : Cardinality({y \in S : y < x}) = i - 1]

\* __repr__ that lists sorted(self.range())
repr_Sorted(self) ==
  [name |-> self.classname,
   args |-> [i \in 1..Len(__iter__(self)) |-> ReprItem(SortedSeq(range(self))[i])]]

__repr__(self) ==
  [name |-> self.classname,
   args |-> [i \in 1..Len(__iter__(self)) |-> ReprItem(__iter__(self)[i])]]

\* isinstance(other, self.__class__)
IsBimap(other) == other.classname = "Bimap"

\* __eq__ that compares the sets of items only
eq_KeysOnly(self, other) ==
  IF IsBimap(other)
  THEN IF {p[1] : p \in Pairs(self.item2ord)} = {p[1] : p \in Pairs(other.item2ord)}
       THEN "True" ELSE "False"
  ELSE "NotImplemented"

__eq__(self, other) ==
  IF IsBimap(other)
  THEN IF OdEq(self.item2ord, other.item2ord) THEN "True" ELSE "False"
  ELSE "NotImplemented"

\* __ne__ that forgets the negation
ne_NotNegated(self, other) ==
  LET result == __eq__(self, other)
  IN  result

__ne__(self, other) ==
  LET result == __eq__(self, other)
  IN  IF result = "NotImplemented" THEN result
      ELSE IF result = "True" THEN "False" ELSE "True"

\* the loop of __init__: register the arguments in order, stop at the first
\* exception
RECURSIVE InitLoop_Reversed(_, _)
\* the loop of __init__ over reversed(args)
InitLoop_Reversed(self, args) ==
  IF args = <<>> THEN [exc |-> "", self |-> self]
  ELSE LET res == register(self, args[Len(args)])
       IN  IF res.exc # "" THEN [exc |-> res.exc, self |-> res.self]
           ELSE InitLoop_Reversed(res.self, SubSeq(args, 1, Len(args) - 1))

RECURSIVE InitLoop_SkipError(_, _)
\* the loop of __init__ with the ValueError of register caught and ignored
InitLoop_SkipError(self, args) ==
  IF args = <<>> THEN [exc |-> "", self |-> self]
  ELSE InitLoop_SkipError(register(self, Head(args)).self, Tail(args))

RECURSIVE InitLoop(_, _)
InitLoop(self, args) ==
  IF args = <<>> THEN [exc |-> "", self |-> self]
  ELSE LET res == register(self, Head(args))
       IN  IF res.exc # "" THEN [exc |-> res.exc, self |-> res.self]
           ELSE InitLoop(res.self, Tail(args))

__init__(args) == InitLoop(Empty, args)

\* eval(text) of a text made by __repr__: the call Bimap(literal, ...)
Eval(text) == __init__([i \in 1..Len(text.args) |-> EvalItem(text.args[i])])

\* the clients that share the registry bm
Clients == {"c1", "c2"}

\* a client that is not in a register call
Idle == [pc |-> "idle", item |-> None, ordinal |-> None, ret |-> None, exc |-> ""]

\* -------------------------------------------------------------- state
\* alive[r]: the variable r holds a constructed Bimap
VARIABLE alive
\* item2ord[r]: self.item2ord of the Bimap held by r
VARIABLE item2ord
\* ord2item[r]: self.ord2item of the Bimap held by r
VARIABLE ord2item
\* history: calls[r] lists <<item, returned ordinal>> of the register calls
\* that returned, those of __init__ included
VARIABLE calls
\* the most recent call: op, reg, arg, ret, exc
VARIABLE last
\* the object a caller got from r.range() and kept: obj is the object, reg
\* is r, and (history) then is the set of the items passed to the register
\* calls of r that had returned when range() was called
VARIABLE held
\* the client that holds the writer lock placed around the registry bm, or
\* "free"
VARIABLE lock
\* client[c]: where client c is in its register call on bm (pc), with the
\* locals item and ordinal of the call and what it returned (ret, exc)
VARIABLE client

vars == <<alive, item2ord, ord2item, calls, last, held, lock, client>>

\* what the methods of one registry leave alone
rest == <<held, lock, client>>

Self(r) == [classname |-> "Bimap", item2ord |-> item2ord[r], ord2item |-> ord2item[r]]

NumCalls == Len(calls["bm"]) + Len(calls["bm2"])

Init ==
  /\ alive    = [r \in Regs |-> FALSE]
  /\ item2ord = [r \in Regs |-> <<>>]
  /\ ord2item = [r \in Regs |-> <<>>]
  /\ calls    = [r \in Regs |-> <<>>]
  /\ last     = [op |-> "none", reg |-> "bm", arg |-> None, ret |-> None, exc |-> ""]
  /\ held     = [obj |-> [kind |-> "none"], reg |-> "bm", then |-> {}]
  /\ lock     = "free"
  /\ client   = [c \in Clients |-> Idle]

\* the register calls __init__ makes for args, with what each returned
RECURSIVE InitCalls(_, _)
InitCalls(self, args) ==
  IF args = <<>> THEN <<>>
  ELSE LET res == register(self, Head(args))
       IN  IF res.exc # "" THEN <<>>
           ELSE <<<<Head(args), res.ret>>>> \o InitCalls(res.self, Tail(args))

\* r = Bimap(*args); when __init__ raises, r stays unbound
New(r, args) ==
  /\ ~alive[r]
  /\ NumCalls + Len(args) <= MaxCalls
  /\ LET res == __init__(args)
     IN  /\ last' = [op |-> "new", reg |-> r, arg |-> args, ret |-> None, exc |-> res.exc]
         /\ IF res.exc = ""
            THEN /\ alive'    = [alive EXCEPT ![r] = TRUE]
                 /\ item2ord' = [item2ord EXCEPT ![r] = res.self.item2ord]
                 /\ ord2item' = [ord2item EXCEPT ![r] = res.self.ord2item]
                 /\ calls'    = [calls EXCEPT ![r] = InitCalls(Empty, args)]
            ELSE UNCHANGED <<alive, item2ord, ord2item, calls>>
  /\ UNCHANGED rest

\* r.register(x) with the two dicts kept in the class, one pair for all
\* instances
Register_Shared(r, x) ==
  /\ alive[r]
  /\ x # None => NumCalls < MaxCalls
  /\ LET res == register(Self(r), x)
     IN  /\ last' = [op |-> "register", reg |-> r, arg |-> x, ret |-> res.ret, exc |-> res.exc]
         /\ item2ord' = [o \in Regs |-> IF alive[o] THEN res.self.item2ord ELSE item2ord[o]]
         /\ ord2item' = [o \in Regs |-> IF alive[o] THEN res.self.ord2item ELSE ord2item[o]]
         /\ calls' = IF res.exc = ""
                     THEN [calls EXCEPT ![r] = Append(@, <<x, res.ret>>)]
                     ELSE calls
         /\ UNCHANGED alive
  /\ UNCHANGED rest

\* r.register(x)
Register(r, x) ==
  /\ alive[r]
  /\ x # None => NumCalls < MaxCalls
  /\ LET res == register(Self(r), x)
     IN  /\ last' = [op |-> "register", reg |-> r, arg |-> x, ret |-> res.ret, exc |-> res.exc]
         /\ item2ord' = [item2ord EXCEPT ![r] = res.self.item2ord]
         /\ ord2item' = [ord2item EXCEPT ![r] = res.self.ord2item]
         /\ calls' = IF res.exc = ""
                     THEN [calls EXCEPT ![r] = Append(@, <<x, res.ret>>)]
                     ELSE calls
         /\ UNCHANGED alive
  /\ UNCHANGED rest

\* r.ordinal(x), r[x]
LookupItem(r, op, x) ==
  /\ alive[r]
  /\ LET ret == IF op = "ordinal" THEN ordinal(Self(r), x) ELSE __getitem__(Self(r), x)
     IN  last' = [op |-> op, reg |-> r, arg |-> x, ret |-> ret, exc |-> ""]
  /\ UNCHANGED <<alive, item2ord, ord2item, calls>>
  /\ UNCHANGED rest

\* r.item(n), r.nth(n)
LookupOrd(r, op, n) ==
  /\ alive[r]
  /\ LET ret == IF op = "item" THEN item(Self(r), n) ELSE nth(Self(r), n)
     IN  last' = [op |-> op, reg |-> r, arg |-> n, ret |-> ret, exc |-> ""]
  /\ UNCHANGED <<alive, item2ord, ord2item, calls>>
  /\ UNCHANGED rest

\* the right operand of a comparison: the Bimap held by o, or another object
Operand(o) == IF o \in Regs THEN Self(o) ELSE [classname |-> "object"]

\* r.__eq__(o), r.__ne__(o)
Compare(r, op, o) ==
  /\ alive[r]
  /\ o \in Regs => alive[o]
  /\ LET ret == IF op = "eq" THEN __eq__(Self(r), Operand(o)) ELSE __ne__(Self(r), Operand(o))
     IN  last' = [op |-> op, reg |-> r, arg |-> o, ret |-> ret, exc |-> ""]
  /\ UNCHANGED <<alive, item2ord, ord2item, calls>>
  /\ UNCHANGED rest

QueryOps == {"len", "bool", "iter", "enumerate", "range", "domain", "ordinals", "repr"}

\* len(r), bool(r), list(r), list(r.enumerate()), r.range(), r.domain(),
\* list(r.ordinals()), repr(r)
Query(r, op) ==
  /\ alive[r]
  /\ LET self == Self(r)
         ret  == CASE op = "len"       -> len(self)
                   [] op = "bool"      -> __bool__(self)
                   [] op = "iter"      -> __iter__(self)
                   [] op = "enumerate" -> enumerate(self)
                   [] op = "range"     -> range(self)
                   [] op = "domain"    -> domain(self)
                   [] op = "ordinals"  -> ordinals(self)
                   [] op = "repr"      -> __repr__(self)
     IN  last' = [op |-> op, reg |-> r, arg |-> None, ret |-> ret, exc |-> ""]
  /\ UNCHANGED <<alive, item2ord, ord2item, calls>>
  /\ UNCHANGED rest

\* range() that returns the live view self.item2ord.keys()
RangeObject_View(r) == [kind |-> "view", of |-> r]

\* the object r.range() returns: set(self) is a new set, filled from the
\* iteration over r at the time of the call
RangeObject(r) == [kind |-> "set", val |-> range(Self(r))]

\* the elements an object holds now: a set holds what was put into it, a
\* keys view shows the keys its dict has now
Contents(obj) ==
  CASE obj.kind = "set"  -> obj.val
    [] obj.kind = "view" -> {item2ord[obj.of][i][1] : i \in 1..Len(item2ord[obj.of])}
    [] OTHER             -> {}

\* s = r.range(), and the caller keeps s
Hold(r) ==
  /\ alive[r]
  /\ held' = [obj  |-> RangeObject(r),
              reg  |-> r,
              then |-> {calls[r][i][1] : i \in 1..Len(calls[r])}]
  /\ last' = [op |-> "range", reg |-> r, arg |-> None, ret |-> range(Self(r)), exc |-> ""]
  /\ UNCHANGED <<alive, item2ord, ord2item, calls, lock, client>>

Next ==
  \/ \E r \in Regs, args \in ArgLists : New(r, args)
  \/ \E r \in Regs, x \in ItemArgs : Register(r, x)
  \/ \E r \in Regs, op \in {"ordinal", "getitem"}, x \in ItemArgs : LookupItem(r, op, x)
  \/ \E r \in Regs, op \in {"item", "nth"}, n \in OrdArgs : LookupOrd(r, op, n)
  \/ \E r \in Regs, op \in {"eq", "ne"}, o \in Regs \cup {NonBimap} : Compare(r, op, o)

Spec == Init /\ [][Next]_vars

\* construction, registration and the queries without argument
NextQuery ==
  \/ \E r \in Regs, args \in ArgLists : New(r, args)
  \/ \E r \in Regs, x \in ItemArgs : Register(r, x)
  \/ \E r \in Regs, op \in QueryOps : Query(r, op)

SpecQuery == Init /\ [][NextQuery]_vars

\* every method of the class
NextAll ==
  \/ Next
  \/ \E r \in Regs, op \in QueryOps : Query(r, op)

SpecAll == Init /\ [][NextAll]_vars

\* construction, registration and a caller that keeps the result of range()
NextSnap ==
  \/ \E r \in Regs, args \in ArgLists : New(r, args)
  \/ \E r \in Regs, x \in ItemArgs : Register(r, x)
  \/ \E r \in Regs : Hold(r)

SpecSnap == Init /\ [][NextSnap]_vars

\* ------------------------------------- register, statement by statement
\* Two clients call register on the registry bm. A call runs the statements
\* of register one at a time; the registry itself takes no lock. The
\* clients keep the writer lock from Acquire to Release.

\* the clients that are in a register call
Pending == {c \in Clients : client[c].pc # "idle"}

Goto(c, pc) == [client EXCEPT ![c].pc = pc]

\* client c is about to call bm.register(x) and waits for the lock
Call(c, x) ==
  /\ alive["bm"]
  /\ client[c].pc = "idle"
  /\ NumCalls + Cardinality(Pending) < MaxCalls
  /\ client' = [client EXCEPT ![c] =
                  [pc |-> "wait", item |-> x, ordinal |-> None, ret |-> None, exc |-> ""]]
  /\ UNCHANGED <<alive, item2ord, ord2item, calls, last, held, lock>>

\* the writer lock is taken
Acquire(c) ==
  /\ client[c].pc = "wait"
  /\ lock = "free"
  /\ lock' = c
  /\ client' = Goto(c, "check")
  /\ UNCHANGED <<alive, item2ord, ord2item, calls, last, held>>

\* if item is None: raise ValueError
CheckNone(c) ==
  /\ client[c].pc = "check"
  /\ client' = IF client[c].item = None
               THEN [client EXCEPT ![c].pc = "release", ![c].exc = "ValueError"]
               ELSE Goto(c, "lookup")
  /\ UNCHANGED <<alive, item2ord, ord2item, calls, last, held, lock>>

\* try: return self.item2ord[item]
Lookup(c) ==
  /\ client[c].pc = "lookup"
  /\ client' = IF Has(item2ord["bm"], client[c].item)
               THEN [client EXCEPT ![c].pc = "release",
                                   ![c].ret = Get(item2ord["bm"], client[c].item)]
               ELSE Goto(c, "len")
  /\ UNCHANGED <<alive, item2ord, ord2item, calls, last, held, lock>>

\* ordinal = len(self)
ReadLen(c) ==
  /\ client[c].pc = "len"
  /\ client' = [client EXCEPT ![c].pc = "store1", ![c].ordinal = len(Self("bm"))]
  /\ UNCHANGED <<alive, item2ord, ord2item, calls, last, held, lock>>

\* self.item2ord[item] = ordinal
Store1(c) ==
  /\ client[c].pc = "store1"
  /\ item2ord' = [item2ord EXCEPT
                    !["bm"] = SetItem(@, client[c].item, client[c].ordinal)]
  /\ client' = Goto(c, "store2")
  /\ UNCHANGED <<alive, ord2item, calls, last, held, lock>>

\* self.ord2item[len(self)] = item, len() taken after the first store
Store2_LenAfterInsert(c) ==
  /\ client[c].pc = "store2"
  /\ ord2item' = [ord2item EXCEPT
                    !["bm"] = SetItem(@, len(Self("bm")), client[c].item)]
  /\ client' = [client EXCEPT ![c].pc = "release", ![c].ret = client[c].ordinal]
  /\ UNCHANGED <<alive, item2ord, calls, last, held, lock>>

\* self.ord2item[ordinal] = item; return ordinal
Store2(c) ==
  /\ client[c].pc = "store2"
  /\ ord2item' = [ord2item EXCEPT
                    !["bm"] = SetItem(@, client[c].ordinal, client[c].item)]
  /\ client' = [client EXCEPT ![c].pc = "release", ![c].ret = client[c].ordinal]
  /\ UNCHANGED <<alive, item2ord, calls, last, held, lock>>

\* the call has returned or raised; the writer lock is given back
Release(c) ==
  /\ client[c].pc = "release"
  /\ lock' = "free"
  /\ client' = Goto(c, "idle")
  /\ calls' = IF client[c].exc = ""
              THEN [calls EXCEPT !["bm"] = Append(@, <<client[c].item, client[c].ret>>)]
              ELSE calls
  /\ last' = [op |-> "register", reg |-> "bm", arg |-> client[c].item,
              ret |-> client[c].ret, exc |-> client[c].exc]
  /\ UNCHANGED <<alive, item2ord, ord2item, held>>

NextLock ==
  \/ \E args \in ArgLists : New("bm", args)
  \/ \E c \in Clients, x \in ItemArgs : Call(c, x)
  \/ \E c \in Clients : Acquire(c)
  \/ \E c \in Clients : CheckNone(c)
  \/ \E c \in Clients : Lookup(c)
  \/ \E c \in Clients : ReadLen(c)
  \/ \E c \in Clients : Store1(c)
  \/ \E c \in Clients : Store2(c)
  \/ \E c \in Clients : Release(c)

SpecLock == Init /\ [][NextLock]_vars

\* ------------------------------------------------- history operators
\* x was passed to a register call of r that returned
Registered(r, x) == \E i \in 1..Len(calls[r]) : calls[r][i][1] = x

\* position in the history of r of the first register call for x
FirstCall(r, x) == CHOOSE i \in 1..Len(calls[r]) :
                     /\ calls[r][i][1] = x
                     /\ \A j \in 1..(i - 1) : calls[r][j][1] # x

\* the items of a call history in order of first registration
RECURSIVE Firsts(_)
Firsts(log) ==
  IF log = <<>> THEN <<>>
  ELSE LET front == Firsts(SubSeq(log, 1, Len(log) - 1))
           x     == log[Len(log)][1]
       IN  IF \E i \in 1..Len(front) : front[i] = x THEN front ELSE Append(front, x)

Live == {r \in Regs : alive[r]}

\* ---------------------------------------------------------------- C1
\* C1 (Bijectivity, I1): in every reachable registry the two maps are exact
\* inverses: item(ordinal(x)) = x for every item x that was registered,
\* ordinal(item(k)) = k for every k in [0, len), and the pairs of ord2item
\* are exactly the swapped pairs of item2ord.
C1_Bijectivity ==
  \A r \in Live :
    LET self == Self(r)
    IN  /\ \A x \in Items : Registered(r, x) =>
              /\ ordinal(self, x) # None
              /\ item(self, ordinal(self, x)) = x
        /\ \A k \in 0..(len(self) - 1) :
              /\ item(self, k) # None
              /\ ordinal(self, item(self, k)) = k
        /\ Pairs(self.ord2item) = {<<p[2], p[1]>> : p \in Pairs(self.item2ord)}
        /\ Len(self.ord2item) = Len(self.item2ord)

\* a registry of two items, one of them registered again afterwards
C1_Witness ==
  \E r \in Live : len(Self(r)) = 2 /\ Len(calls[r]) = 3 /\ last.op = "register"

\* ---------------------------------------------------------------- C2
\* C2 (Idempotency of register): all register calls for the same item on
\* a registry returned the same ordinal, and a register call that returns
\* raises len by one when the item was not registered before and leaves
\* len alone when it was.
SameOrdinalEveryTime ==
  \A r \in Live : \A i, j \in 1..Len(calls[r]) :
    calls[r][i][1] = calls[r][j][1] => calls[r][i][2] = calls[r][j][2]

LenStep ==
  \A r \in Regs :
    (alive[r] /\ last'.op = "register" /\ last'.reg = r /\ last'.exc = "") =>
       IF Has(item2ord[r], last'.arg)
       THEN /\ last'.ret = ordinal(Self(r), last'.arg)
            /\ len(Self(r))' = len(Self(r))
       ELSE len(Self(r))' = len(Self(r)) + 1

C2_Idempotency == [](SameOrdinalEveryTime) /\ [][LenStep]_vars

\* the same item registered three times on one registry
C2_Witness ==
  \E r \in Live : \E x \in Items :
     /\ Cardinality({i \in 1..Len(calls[r]) : calls[r][i][1] = x}) = 3
     /\ len(Self(r)) = 1

\* ---------------------------------------------------------------- C3
\* C3 (Stability, I4): once ordinal(x) = k holds for a registry, no step
\* changes it: ordinal(x) = k holds after every step, and item(k) = x
\* holds in every state in which ordinal(x) = k does.
SelfNext(r) == [classname |-> "Bimap", item2ord |-> item2ord'[r], ord2item |-> ord2item'[r]]

\* ordinal reads item2ord only, so a step that leaves item2ord[r] alone
\* leaves every ordinal of r alone
StableStep ==
  \A r \in Regs :
    item2ord'[r] # item2ord[r] =>
      \A x \in ItemArgs :
        ordinal(Self(r), x) # None => ordinal(SelfNext(r), x) = ordinal(Self(r), x)

ItemOfOrdinal ==
  \A r \in Regs : \A x \in ItemArgs :
    ordinal(Self(r), x) # None => item(Self(r), ordinal(Self(r), x)) = x

C3_Stability == [](ItemOfOrdinal) /\ [][StableStep]_vars

\* an item got ordinal 0, a second item was registered, then the first again
C3_Witness ==
  \E r \in Live :
     /\ Len(calls[r]) = 3
     /\ calls[r][1] = calls[r][3]
     /\ calls[r][2][2] = 1
     /\ last = [op |-> "register", reg |-> r, arg |-> calls[r][1][1], ret |-> 0, exc |-> ""]

\* ---------------------------------------------------------------- C4
\* C4 (Density, I2): a register call for an item that is not registered
\* returns len as it was before the call; the assigned ordinals are exactly
\* 0..len-1 without repeats; domain() is range(len) and ordinals() lists
\* 0, 1, ..., len-1 in ascending order.
DensityInv ==
  \A r \in Live :
    LET self == Self(r)
    IN  /\ ordinals(self) = PyRange(len(self))
        /\ domain(self) = PyRange(len(self))
        /\ {p[2] : p \in Pairs(self.item2ord)} = 0..(len(self) - 1)
        /\ \A i, j \in 1..Len(self.item2ord) :
              self.item2ord[i][2] = self.item2ord[j][2] => i = j
        /\ \A i \in 1..Len(calls[r]) :
              (\A j \in 1..(i - 1) : calls[r][j][1] # calls[r][i][1]) =>
                 calls[r][i][2] = Cardinality({calls[r][j][1] : j \in 1..(i - 1)})

DensityStep ==
  \A r \in Regs : \A x \in Items :
    (alive[r] /\ last'.op = "register" /\ last'.reg = r /\ last'.arg = x
       /\ last'.exc = "" /\ ~Has(item2ord[r], x)) =>
       /\ last'.ret = len(Self(r))
       /\ ordinal(Self(r), x)' = len(Self(r))

C4_Density == [](DensityInv) /\ [][DensityStep]_vars

\* a new item has just been registered on a registry that held one item
C4_Witness ==
  \E r \in Live :
     /\ last.op = "register" /\ last.reg = r /\ last.ret = 1
     /\ ordinals(Self(r)) = <<0, 1>>
     /\ Len(calls[r]) = 2

\* ---------------------------------------------------------------- C5
\* C5 (Monotonicity, I3): for two distinct registered items A and B, the
\* first register call for A came before the first register call for B
\* if and only if ordinal(A) < ordinal(B), in every state, also after
\* either item was registered again.
C5_Monotonicity ==
  \A r \in Live : \A A, B \in Items :
    (A # B /\ Registered(r, A) /\ Registered(r, B)) =>
       /\ ordinal(Self(r), A) # None
       /\ ordinal(Self(r), B) # None
       /\ (FirstCall(r, A) < FirstCall(r, B)
             <=> ordinal(Self(r), A) < ordinal(Self(r), B))

\* A, then B, then A again
C5_Witness ==
  \E r \in Live : \E A, B \in Items :
     /\ A # B
     /\ Len(calls[r]) = 3
     /\ calls[r][1][1] = A /\ calls[r][2][1] = B /\ calls[r][3][1] = A

\* ---------------------------------------------------------------- C6
\* C6 (Null rejection): register(None) raises ValueError on every
\* reachable registry, empty or not, and the step that makes the call
\* leaves alive, both maps and the history as they were.
NoneRaises ==
  \A r \in Live :
    LET res == register(Self(r), None)
    IN  res.exc = "ValueError" /\ res.self = Self(r)

NoneStep ==
  (last'.op = "register" /\ last'.arg = None) =>
     /\ last'.exc = "ValueError"
     /\ UNCHANGED <<alive, item2ord, ord2item, calls>>

C6_NullRejection == [](NoneRaises) /\ [][NoneStep]_vars

\* register(None) has just failed on a registry of two items
C6_Witness ==
  /\ last.op = "register" /\ last.arg = None /\ last.exc = "ValueError"
  /\ len(Self(last.reg)) = 2

\* ---------------------------------------------------------------- C7
\* C7 (Not-found semantics): ordinal(x) and bm[x] are None exactly for
\* the items that were never registered, and otherwise a natural number;
\* item(n) and nth(n) are None exactly for n < 0 or n >= len, and
\* otherwise an item; a lookup that was made did not raise.
C7_NotFound ==
  /\ \A r \in Live :
       LET self == Self(r)
       IN  /\ \A x \in ItemArgs :
                IF x \in Items /\ Registered(r, x)
                THEN ordinal(self, x) \in Nat /\ __getitem__(self, x) \in Nat
                ELSE ordinal(self, x) = None /\ __getitem__(self, x) = None
           /\ \A n \in OrdArgs :
                IF n < 0 \/ n >= len(self)
                THEN item(self, n) = None /\ nth(self, n) = None
                ELSE item(self, n) \in Items /\ nth(self, n) \in Items
  /\ last.op \in {"ordinal", "getitem", "item", "nth"} => last.exc = ""
  /\ last.op \in {"ordinal", "getitem"} =>
       (last.ret = None <=> ~Registered(last.reg, last.arg))
  /\ last.op \in {"item", "nth"} =>
       (last.ret = None <=> (last.arg < 0 \/ last.arg >= len(Self(last.reg))))

\* item(-2) has just returned None on a registry of two items
C7_Witness ==
  /\ last.op = "item" /\ last.arg = -2 /\ last.ret = None
  /\ len(Self(last.reg)) = 2

\* ---------------------------------------------------------------- C8
\* C8 (No null item, I5): in every reachable state None is not a key of
\* item2ord and not a value of ord2item, also after register(None) failed.
C8_NoNullItem ==
  \A r \in Regs :
    /\ ~Has(item2ord[r], None)
    /\ \A i \in 1..Len(ord2item[r]) : ord2item[r][i][2] # None
    /\ \A i \in 1..Len(calls[r]) : calls[r][i][1] # None

\* register(None) has just failed on a registry of one item
C8_Witness ==
  /\ last.op = "register" /\ last.arg = None /\ last.exc = "ValueError"
  /\ len(Self(last.reg)) = 1

\* ---------------------------------------------------------------- C9
\* C9 (Equality): for every two reachable registries __eq__ is True if
\* and only if the two item2ord maps hold the same set of (item, ordinal)
\* pairs, and __ne__ is the negation of __eq__.
C9_Equality ==
  /\ \A r1, r2 \in Live :
       LET eq == __eq__(Self(r1), Self(r2))
           ne == __ne__(Self(r1), Self(r2))
       IN  /\ eq \in {"True", "False"}
           /\ eq = "True" <=> Pairs(item2ord[r1]) = Pairs(item2ord[r2])
           /\ ne \in {"True", "False"}
           /\ ne = "True" <=> eq = "False"
  /\ (last.op = "eq" /\ last.arg \in Regs) =>
       (last.ret = "True" <=> Pairs(item2ord[last.reg]) = Pairs(item2ord[last.arg]))
  /\ (last.op = "ne" /\ last.arg \in Regs) =>
       (last.ret = "True" <=> Pairs(item2ord[last.reg]) # Pairs(item2ord[last.arg]))

\* != has just returned False for two distinct registries of two items
C9_Witness ==
  /\ last.op = "ne" /\ last.arg \in Regs /\ last.arg # last.reg
  /\ last.ret = "False"
  /\ len(Self(last.reg)) = 2

\* --------------------------------------------------------------- C10
\* C10 (Order sensitivity of equality): two registries with equal range()
\* whose items were first registered in different orders are not equal;
\* two registries with the same sequence of first registrations are equal.
C10_OrderSensitivity ==
  \A r1, r2 \in Live :
    LET eq == __eq__(Self(r1), Self(r2))
    IN  /\ (range(Self(r1)) = range(Self(r2))
              /\ Firsts(calls[r1]) # Firsts(calls[r2])) => eq = "False"
        /\ Firsts(calls[r1]) = Firsts(calls[r2]) => eq = "True"

\* == has just returned False for two registries that hold the same two
\* items, registered in opposite orders
C10_Witness ==
  /\ last.op = "eq" /\ last.arg \in Regs /\ last.ret = "False"
  /\ range(Self(last.reg)) = range(Self(last.arg))
  /\ len(Self(last.reg)) = 2

\* --------------------------------------------------------------- C11
\* bm is built by the constructor alone, bm2 is built empty and then filled
\* by register calls
NextBuild ==
  \/ \E args \in ArgLists : New("bm", args)
  \/ New("bm2", <<>>)
  \/ \E x \in ItemArgs : Register("bm2", x)
  \/ \E op \in {"eq", "ne"} : Compare("bm", op, "bm2")

SpecBuild == Init /\ [][NextBuild]_vars

\* C11 (Construction equivalence): when the arguments of Bimap(a1, ..., an)
\* are the items registered, in that order, on a registry that was created
\* empty, the two registries have the same maps and compare equal; an
\* argument that repeats an earlier one has the ordinal of its first
\* occurrence and takes no ordinal of its own.
C11_ConstructionEquivalence ==
  /\ (alive["bm"] /\ alive["bm2"] /\ Keys(calls["bm"]) = Keys(calls["bm2"])) =>
        /\ Self("bm") = Self("bm2")
        /\ __eq__(Self("bm"), Self("bm2")) = "True"
  /\ alive["bm"] =>
        LET args == Keys(calls["bm"])
        IN  /\ len(Self("bm")) = Cardinality({args[i] : i \in 1..Len(args)})
            /\ \A i \in 1..Len(args) :
                 ordinal(Self("bm"), args[i])
                   = Cardinality({args[j] : j \in 1..(FirstCall("bm", args[i]) - 1)})

\* Bimap(x, y, x) or Bimap(x, x) against the same calls made one by one
C11_Witness ==
  /\ alive["bm"] /\ alive["bm2"]
  /\ Len(calls["bm"]) = 2
  /\ calls["bm"][1][1] = calls["bm"][2][1]
  /\ Keys(calls["bm"]) = Keys(calls["bm2"])
  /\ last.op = "eq" /\ last.ret = "True"

\* --------------------------------------------------------------- C12
\* C12 (Reconstruction round-trip): for every reachable registry R,
\* eval(repr(R)), the constructor applied to the items of R in registration
\* order, returns a registry equal to R, also after items of R were
\* registered again.
C12_RoundTrip ==
  \A r \in Live :
    LET res == Eval(__repr__(Self(r)))
    IN  /\ res.exc = ""
        /\ __eq__(Self(r), res.self) = "True"
        /\ __eq__(res.self, Self(r)) = "True"

\* repr has just listed two items that were not registered in ascending
\* order, one of them registered twice
C12_Witness ==
  /\ last.op = "repr"
  /\ last.ret = [name |-> "Bimap", args |-> <<"2", "1">>]
  /\ Len(calls[last.reg]) = 3

\* --------------------------------------------------------------- C13
\* C13 (Iteration order): iterating a registry yields len items, the k-th
\* of them (from 0) is item(k), and they come in the order of their first
\* registration, whatever was registered again.
C13_IterationOrder ==
  /\ \A r \in Live :
       LET self == Self(r)
       IN  /\ Len(__iter__(self)) = len(self)
           /\ \A k \in 0..(len(self) - 1) : __iter__(self)[k + 1] = item(self, k)
           /\ __iter__(self) = Firsts(calls[r])
  /\ last.op = "iter" =>
       last.ret = [i \in 1..len(Self(last.reg)) |-> item(Self(last.reg), i - 1)]

\* iteration has just yielded two items of which the first was registered
\* a second time after the other
C13_Witness ==
  /\ last.op = "iter" /\ Len(last.ret) = 2
  /\ Len(calls[last.reg]) = 3
  /\ calls[last.reg][3][1] = last.ret[1]

\* --------------------------------------------------------------- C14
\* C14 (Pair enumeration): enumerate() yields len pairs (o, x) with
\* item(o) = x and ordinal(x) = o, the ordinals being 0, 1, ..., len-1 in
\* that order.
PairsOk(self, pairs) ==
  /\ Len(pairs) = len(self)
  /\ \A i \in 1..Len(pairs) :
       /\ pairs[i][1] = i - 1
       /\ item(self, pairs[i][1]) = pairs[i][2]
       /\ ordinal(self, pairs[i][2]) = pairs[i][1]

C14_PairEnumeration ==
  /\ \A r \in Live : PairsOk(Self(r), enumerate(Self(r)))
  /\ last.op = "enumerate" => PairsOk(Self(last.reg), last.ret)

\* enumerate has just yielded two pairs
C14_Witness ==
  /\ last.op = "enumerate" /\ Len(last.ret) = 2
  /\ last.ret[2][1] = 1

\* --------------------------------------------------------------- C15
\* C15 (Frame): a step changes a map of a constructed registry, the order
\* of its keys included, only when the step is a register call that
\* returns, for an item that was not registered; register of a registered
\* item and every lookup, query and comparison leave both maps as they were.
FrameStep ==
  \A r \in Regs :
    (alive[r] /\ (item2ord'[r] # item2ord[r] \/ ord2item'[r] # ord2item[r])) =>
       /\ last'.op = "register"
       /\ last'.reg = r
       /\ last'.exc = ""
       /\ ~Has(item2ord[r], last'.arg)

C15_Frame == [][FrameStep]_vars

\* the second of two items has just been registered again
C15_Witness ==
  /\ last.op = "register" /\ last.ret = 1
  /\ Len(calls[last.reg]) = 3
  /\ len(Self(last.reg)) = 2

\* --------------------------------------------------------------- C16
\* C16 (Size): len is the number of distinct items passed to the register
\* calls that returned, those of the constructor included; no step makes
\* len smaller; bool(registry) is False exactly when len is 0.
SizeInv ==
  /\ \A r \in Live :
       /\ len(Self(r)) = Cardinality({calls[r][i][1] : i \in 1..Len(calls[r])})
       /\ __bool__(Self(r)) <=> len(Self(r)) # 0
  /\ last.op = "len" =>
       last.ret = Cardinality({calls[last.reg][i][1] : i \in 1..Len(calls[last.reg])})
  /\ last.op = "bool" => (last.ret <=> len(Self(last.reg)) # 0)

SizeStep ==
  \A r \in Regs :
    item2ord'[r] # item2ord[r] => len(SelfNext(r)) >= len(Self(r))

C16_Size == [](SizeInv) /\ [][SizeStep]_vars

\* len has just returned 2 after three register calls
C16_Witness ==
  /\ last.op = "len" /\ last.ret = 2
  /\ Len(calls[last.reg]) = 3

\* --------------------------------------------------------------- C17
\* C17 (Snapshot): the set that range() returned holds, when it is returned
\* and in every later state, exactly the items that were registered at the
\* moment of the call, whatever is registered afterwards.
C17_Snapshot ==
  held.obj.kind # "none" => Contents(held.obj) = held.then

\* range() was called on a registry of one item, a second item was
\* registered afterwards
C17_Witness ==
  /\ held.obj.kind # "none"
  /\ Cardinality(held.then) = 1
  /\ len(Self(held.reg)) = 2
  /\ last.op = "register"

\* --------------------------------------------------------------- C18
\* C18 (Instance independence): a register call on one registry leaves the
\* maps of every other registry as they were, and when it registers a new
\* item, a registry that compared equal before the call no longer does.
IndependentStep ==
  \A r \in Regs :
    (alive[r] /\ last'.op = "register" /\ last'.reg = r) =>
       \A o \in Regs \ {r} :
          /\ item2ord'[o] = item2ord[o]
          /\ ord2item'[o] = ord2item[o]
          /\ (alive[o] /\ item2ord'[r] # item2ord[r]
                /\ __eq__(Self(r), Self(o)) = "True") =>
                  /\ __eq__(SelfNext(r), SelfNext(o)) = "False"
                  /\ __eq__(SelfNext(o), SelfNext(r)) = "False"

C18_Independence == [][IndependentStep]_vars

\* two registries held the same single item, then a second item was
\* registered on one of them
C18_Witness ==
  /\ last.op = "register" /\ last.ret = 1 /\ last.exc = ""
  /\ \E o \in Live \ {last.reg} :
        /\ len(Self(o)) = 1
        /\ len(Self(last.reg)) = 2
        /\ __iter__(Self(o))[1] = __iter__(Self(last.reg))[1]
        /\ Len(calls[last.reg]) = 2

\* --------------------------------------------------------------- C19
\* C19 (External synchronization): register takes no lock itself; when the
\* clients run each register call under one writer lock, then in every
\* interleaving the maps of the shared registry are exact inverses (I1) and
\* the ordinals are 0..len-1 (I2) whenever the lock is free, and the
\* ordinal a call returned to its client is the ordinal the item has in
\* every later state.
C19_ExternalSync ==
  LET self == Self("bm")
  IN  /\ lock = "free" =>
            /\ Pairs(self.ord2item) = {<<p[2], p[1]>> : p \in Pairs(self.item2ord)}
            /\ Len(self.ord2item) = Len(self.item2ord)
            /\ ordinals(self) = PyRange(len(self))
            /\ \A k \in 0..(len(self) - 1) : ordinal(self, item(self, k)) = k
      /\ \A i \in 1..Len(calls["bm"]) :
            ordinal(self, calls["bm"][i][1]) = calls["bm"][i][2]
      /\ \A c \in Clients :
            (client[c].pc \in {"release", "idle"} /\ client[c].ret # None) =>
               ordinal(self, client[c].item) = client[c].ret

\* the two clients have registered two different items on the shared
\* registry and got different ordinals
C19_Witness ==
  /\ lock = "free"
  /\ client["c1"].pc = "idle" /\ client["c2"].pc = "idle"
  /\ client["c1"].ret = 1 /\ client["c2"].ret = 0
  /\ len(Self("bm")) = 2

\* --------------------------------------------------------------- C20
\* C20 (Construction with a null argument): Bimap(a1, ..., an) with some
\* ai = None raises ValueError and binds no registry; the abandoned object
\* holds the arguments before the first None and none after it; a registry
\* comes into being only by a constructor call without None that returned.
FirstNone(args) == CHOOSE i \in 1..Len(args) :
                     args[i] = None /\ \A j \in 1..(i - 1) : args[j] # None

HasNone(args) == \E i \in 1..Len(args) : args[i] = None

NullArgInv ==
  (last.op = "new" /\ HasNone(last.arg)) =>
     LET res == __init__(last.arg)
     IN  /\ last.exc = "ValueError"
         /\ res.exc = "ValueError"
         /\ range(res.self) = {last.arg[j] : j \in 1..(FirstNone(last.arg) - 1)}

NullArgStep ==
  /\ (last'.op = "new" /\ HasNone(last'.arg)) =>
        /\ last'.exc = "ValueError"
        /\ UNCHANGED <<alive, item2ord, ord2item, calls>>
  /\ \A r \in Regs :
        (alive'[r] /\ ~alive[r]) =>
           /\ last'.op = "new" /\ last'.reg = r /\ last'.exc = ""
           /\ ~HasNone(last'.arg)
           /\ Keys(calls'[r]) = last'.arg

C20_NullArgument == [](NullArgInv) /\ [][NullArgStep]_vars

\* Bimap(None, x) has just failed for an item x
C20_Witness ==
  /\ last.op = "new" /\ last.exc = "ValueError"
  /\ Len(last.arg) = 2
  /\ last.arg[1] = None /\ last.arg[2] \in Items
  /\ ~alive[last.reg]

====
